---- MODULE Spec2Model ----
(***************************************************************************)
(* The reviews API of src/reviews_api.py: the captchas and reviews tables, *)
(* the handlers get_captcha, create_review (with verify_captcha),          *)
(* list_reviews, delete_review and health, and the clock they read.        *)
(*                                                                         *)
(* Spec runs each handler as one atomic step (requests one at a time).     *)
(* SpecConc runs two request workers whose store statements interleave.    *)
(***************************************************************************)
EXTENDS Integers, Sequences, FiniteSets, TLC

(***************************************************************************)
(* Program constants and model bounds                                      *)
(***************************************************************************)
CAPTCHA_TTL == 300

DEFAULT_LIMIT == 200

LIMIT_CHARS == 4

\* state-growing steps of a run: captchas issued, review ids assigned and
\* advances of the clock, together
MaxOps == 4

(***************************************************************************)
(* Values: text is a sequence of one-character strings; a JSON value is    *)
(* null, a string or an integer.                                           *)
(***************************************************************************)
JNull == [t |-> "null"]

JStr(s) == [t |-> "str", v |-> s]

JInt(n) == [t |-> "int", v |-> n]

Digits == <<"0", "1", "2", "3", "4", "5", "6", "7", "8", "9">>

RECURSIVE IntToStr(_)
\* str(n) of a non-negative integer
IntToStr(n) == IF n < 10 THEN <<Digits[n + 1]>>
               ELSE IntToStr(n \div 10) \o <<Digits[(n % 10) + 1]>>

\* Python str(x) of a JSON value
Str(x) == CASE x.t = "null" -> <<"N", "o", "n", "e">>
            [] x.t = "int" -> IntToStr(x.v)
            [] OTHER -> x.v

IsSpace(c) == c \in {" ", "\t", "\n"}

RECURSIVE LStrip(_)
LStrip(s) == IF s # <<>> /\ IsSpace(Head(s)) THEN LStrip(Tail(s)) ELSE s

RECURSIVE RStrip(_)
RStrip(s) == IF s # <<>> /\ IsSpace(s[Len(s)]) THEN RStrip(SubSeq(s, 1, Len(s) - 1)) ELSE s

\* a fault: nothing is stripped
Strip_Not(s) == s

\* Python str.strip()
Strip(s) == RStrip(LStrip(s))

\* Python truthiness of a JSON value that is null or a string
Truthy(x) == x.t = "str" /\ x.v # <<>>

\* Python (x or '') for a JSON value that is null or a string
OrEmpty(x) == IF Truthy(x) THEN x.v ELSE <<>>

(***************************************************************************)
(* Random sources.  secrets.token_hex / token_urlsafe never repeat a       *)
(* value: the k-th captcha id, the delete token and the minted client id   *)
(* of review k are distinct texts.  randbelow is sampled.                  *)
(***************************************************************************)
Cid(k) == <<"a">> \o IntToStr(k)

\* a fault: one delete token for all reviews
Token_Shared(k) == <<"t">>

Token(k) == <<"t">> \o IntToStr(k)

Minted(k) == <<"m">> \o IntToStr(k)

\* samples of secrets.randbelow(8) for a and for b
DrawsA == {0, 7}

DrawsB == {0}

(***************************************************************************)
(* The store: table captchas (cid -> answer, expires_at), table reviews    *)
(* (a set of rows) and the AUTOINCREMENT counter of reviews.               *)
(***************************************************************************)
VARIABLES
    captchas,   \* table captchas
    reviews,    \* table reviews
    seq,        \* sqlite_sequence of reviews: the greatest id assigned
    now,        \* time.time(), in seconds
    issued,     \* captcha ids minted so far
    ticks,      \* advances of the clock so far
    pc,         \* SpecConc, per worker: where it is in its request
    req,        \* SpecConc, per worker: the request it handles
    loc,        \* SpecConc, per worker: the handler's local variables
    verifs,     \* history: per captcha id, the verifications that returned True
    refused,    \* history: the stored captchas a verification has refused for the answer
    created,    \* history: the 201 responses of create_review (body and cookie)
    app         \* the Flask app after startup: its routes, whether the schema exists

store == <<captchas, reviews, seq>>

workers == <<pc, req, loc>>

history == <<verifs, refused, created>>

vars == <<captchas, reviews, seq, now, issued, ticks, pc, req, loc, verifs, refused, created, app>>

NoRow == [none |-> TRUE]

\* INSERT OR REPLACE INTO captchas
InsertCaptcha(caps, cid, ans, expires) ==
    [c \in DOMAIN caps \cup {cid} |->
        IF c = cid THEN [answer |-> ans, expires_at |-> expires] ELSE caps[c]]

\* SELECT answer, expires_at FROM captchas WHERE cid=?
FindCaptcha(caps, cid) == IF cid \in DOMAIN caps THEN caps[cid] ELSE NoRow

\* a fault: a DELETE that removes nothing
DeleteCaptcha_Kept(caps, cid) == caps

\* DELETE FROM captchas WHERE cid=?
DeleteCaptcha(caps, cid) == [c \in DOMAIN caps \ {cid} |-> caps[c]]

\* a fault: the prior-review query finds no row
LatestByClient_None(revs, client) == {}

\* SELECT name FROM reviews WHERE client_id = ? ORDER BY ts DESC LIMIT 1:
\* the rows SQL may return (any row of the greatest ts)
LatestByClient(revs, client) ==
    {r \in revs : /\ r.client_id = client
                  /\ \A o \in revs : o.client_id = client => o.ts <= r.ts}

\* a fault: ids assigned by the number of rows, so a freed id is taken again
InsertReview_Reuse(revs, sq, name, text, ts, client, token) ==
    revs \cup {[id |-> Cardinality(revs) + 1, name |-> name, text |-> text, ts |-> ts,
                client_id |-> client, delete_token |-> token]}

\* INSERT INTO reviews: the row, with the id AUTOINCREMENT assigns
InsertReview(revs, sq, name, text, ts, client, token) ==
    revs \cup {[id |-> sq + 1, name |-> name, text |-> text, ts |-> ts,
                client_id |-> client, delete_token |-> token]}

\* SELECT delete_token, client_id FROM reviews WHERE id=?
FindReviewById(revs, rid) ==
    IF \E r \in revs : r.id = rid THEN CHOOSE r \in revs : r.id = rid ELSE NoRow

\* a fault: a DELETE without its WHERE
DeleteReviewById_All(revs, rid) == {}

\* DELETE FROM reviews WHERE id=?
DeleteReviewById(revs, rid) == {r \in revs : r.id # rid}

\* SELECT id,name,text,ts FROM reviews ORDER BY ts DESC: the row orders SQL
\* may return (rows of equal ts in any order)
OrderedByTs(revs) ==
    {s \in [1..Cardinality(revs) -> revs] :
        /\ \A i, j \in 1..Cardinality(revs) : i # j => s[i] # s[j]
        /\ \A i, j \in 1..Cardinality(revs) : i < j => s[i].ts >= s[j].ts}

\* LIMIT n of SQLite: a negative n is no limit
Limit(s, n) == IF n < 0 \/ n >= Len(s) THEN s ELSE SubSeq(s, 1, n)

(***************************************************************************)
(* Handlers, each as the outcome of one request on a given store: the      *)
(* response and the tables it leaves.                                      *)
(***************************************************************************)
Min(a, b) == IF a < b THEN a ELSE b

IsDigit(c) == \E i \in 1..10 : Digits[i] = c

DigitVal(c) == (CHOOSE i \in 1..10 : Digits[i] = c) - 1

RECURSIVE DigitsVal(_)
DigitsVal(s) == IF s = <<>> THEN 0
                ELSE 10 * DigitsVal(SubSeq(s, 1, Len(s) - 1)) + DigitVal(s[Len(s)])

\* Python int(s) of a text: surrounding whitespace, an optional sign, digits;
\* anything else raises ValueError (ok = FALSE)
ParseInt(s) ==
    LET b == Strip(s)
        signed == b # <<>> /\ Head(b) \in {"+", "-"}
        d == IF signed THEN Tail(b) ELSE b
    IN IF d = <<>> \/ \E i \in 1..Len(d) : ~IsDigit(d[i])
       THEN [ok |-> FALSE, v |-> 0]
       ELSE [ok |-> TRUE, v |-> IF signed /\ Head(b) = "-" THEN 0 - DigitsVal(d) ELSE DigitsVal(d)]

\* get_captcha with a = randbelow(8) + 2 and b = randbelow(8) + 1 drawn
get_captcha(caps, t, cid, a, b) ==
    [status |-> 200,
     body |-> [cid |-> cid,
               question |-> IntToStr(a) \o <<" ", "+", " ">> \o IntToStr(b) \o <<" ", "=", " ", "?">>],
     captchas |-> InsertCaptcha(caps, cid, IntToStr(a + b), t + CAPTCHA_TTL)]

\* faults: a captcha that expires one second early, one that lives one
\* second longer
Expired_Early(t, row) == t >= row.expires_at

Expired_Late(t, row) == t > row.expires_at + 1

\* the rule of verify_captcha on the row it selected
Expired(t, row) == t > row.expires_at

AnswerMatches(answer, row) == Strip(Str(answer)) = Strip(row.answer)

\* a fault: a wrong answer consumes the captcha as well
verify_captcha_Burning(caps, t, cid, answer) ==
    IF ~Truthy(cid) THEN [ok |-> FALSE, captchas |-> caps]
    ELSE LET row == FindCaptcha(caps, cid.v)
         IN IF row = NoRow THEN [ok |-> FALSE, captchas |-> caps]
            ELSE [ok |-> ~Expired(t, row) /\ AnswerMatches(answer, row),
                  captchas |-> DeleteCaptcha(caps, cid.v)]

verify_captcha(caps, t, cid, answer) ==
    IF ~Truthy(cid) THEN [ok |-> FALSE, captchas |-> caps]
    ELSE LET row == FindCaptcha(caps, cid.v)
         IN IF row = NoRow THEN [ok |-> FALSE, captchas |-> caps]
            ELSE IF Expired(t, row)
                 THEN [ok |-> FALSE, captchas |-> DeleteCaptcha(caps, cid.v)]
            ELSE IF ~AnswerMatches(answer, row) THEN [ok |-> FALSE, captchas |-> caps]
            ELSE [ok |-> TRUE, captchas |-> DeleteCaptcha(caps, cid.v)]

NAME_CONFLICT == "This device/client already has a name set. Use the same name or reset locally."

NoCookie == <<>>

NoCid == <<>>

\* a fault: a refusal that empties the table captchas
Reject_Clearing(code, msg, revs, caps, sq) ==
    [status |-> code, body |-> [error |-> msg], cookie |-> NoCookie,
     reviews |-> revs, captchas |-> [c \in {} |-> NoRow], seq |-> sq, verified |-> NoCid]

Reject(code, msg, revs, caps, sq) ==
    [status |-> code, body |-> [error |-> msg], cookie |-> NoCookie,
     reviews |-> revs, captchas |-> caps, seq |-> sq, verified |-> NoCid]

\* the client id of a request: its cookie, or a freshly minted id
ClientId(cookie, sq) == IF Truthy(cookie) THEN cookie.v ELSE Minted(sq + 1)

\* faults: no name check; a name check that refuses the client's own name
NameConflict_Never(row, name) == FALSE

NameConflict_Same(row, name) == row.name = name

\* the name check of create_review against the prior row it selected
NameConflict(row, name) == row.name # name

\* create_review from the insert on: the row and the 201 response
Created(revs, caps, sq, t, name, text, client, verified) ==
    [status |-> 201,
     body |-> [id |-> sq + 1, delete_token |-> Token(sq + 1), name |-> name,
               text |-> text, ts |-> t],
     cookie |-> client,
     reviews |-> InsertReview(revs, sq, name, text, t, client, Token(sq + 1)),
     captchas |-> caps, seq |-> sq + 1, verified |-> verified]

\* create_review: the outcomes of one POST (one per row the prior-review
\* query may return)
create_review(revs, caps, sq, t, rq) ==
    LET name == Strip(OrEmpty(rq.name))
        text == Strip(OrEmpty(rq.text))
        client == ClientId(rq.cookie, sq)
        rows == LatestByClient(revs, client)
        v == verify_captcha(caps, t, rq.captcha_id, rq.captcha_answer)
    IN IF name = <<>> THEN {Reject(400, "name required", revs, caps, sq)}
       ELSE IF text = <<>> /\ rq.text.t = "null"
            THEN {Reject(400, "text required", revs, caps, sq)}
       ELSE IF rows # {}
            THEN {IF NameConflict(row, name)
                  THEN Reject(403, NAME_CONFLICT, revs, caps, sq)
                  ELSE Created(revs, caps, sq, t, name, text, client, NoCid) : row \in rows}
       ELSE IF ~v.ok THEN {Reject(400, "captcha failed", revs, v.captchas, sq)}
       ELSE {Created(revs, v.captchas, sq, t, name, text, client, rq.captcha_id.v)}

\* faults: any token authorises; the cookie never does
TokenMatches_Any(token, row) == Truthy(token)

CookieMatches_Never(cookie, row) == FALSE

\* the two authorisations of delete_review on the row it selected
TokenMatches(token, row) == Truthy(token) /\ token.v = row.delete_token

CookieMatches(cookie, row) == Truthy(cookie) /\ cookie.v = row.client_id

delete_review(revs, rid, token, cookie) ==
    LET row == FindReviewById(revs, rid)
    IN IF row = NoRow
       THEN [status |-> 404, body |-> [error |-> "not found"], reviews |-> revs]
       ELSE IF TokenMatches(token, row)
            THEN [status |-> 200, body |-> [ok |-> TRUE], reviews |-> DeleteReviewById(revs, rid)]
       ELSE IF CookieMatches(cookie, row)
            THEN [status |-> 200, body |-> [ok |-> TRUE], reviews |-> DeleteReviewById(revs, rid)]
       ELSE [status |-> 403, body |-> [error |-> "unauthorized"], reviews |-> revs]

\* a fault: the whole row is listed
Listed_Row(r) == r

\* the fields list_reviews returns of a row
Listed(r) == [id |-> r.id, name |-> r.name, text |-> r.text, ts |-> r.ts]

\* list_reviews: the responses of one GET (one per row order SQL may return);
\* a limit that int() rejects is an unhandled ValueError (500)
list_reviews(revs, limit) ==
    LET p == IF Truthy(limit)
             THEN ParseInt(SubSeq(limit.v, 1, Min(LIMIT_CHARS, Len(limit.v))))
             ELSE [ok |-> TRUE, v |-> DEFAULT_LIMIT]
    IN IF ~p.ok THEN {[status |-> 500, body |-> [error |-> "ValueError"]]}
       ELSE {[status |-> 200,
              body |-> [reviews |-> [i \in 1..Len(Limit(s, p.v)) |-> Listed(s[i])]]] :
             s \in OrderedByTs(revs)}

health == [status |-> 200, body |-> [ok |-> TRUE]]

(***************************************************************************)
(* Requests: the values a client may send.                                 *)
(***************************************************************************)
Ann == <<"a", "n", "n">>

Bob == <<"b", "o", "b">>

Hi == <<"h", "i">>

K1 == <<"k", "1">>

NameInputs == {JNull, JStr(<<" ">>), JStr(Ann \o <<" ">>), JStr(Bob)}

TextInputs == {JNull, JStr(<<>>), JStr(<<" ">> \o Hi)}

\* no captcha id, or one a captcha response has returned
CidInputs == {JNull} \cup {JStr(Cid(k)) : k \in 1..issued}

\* no answer, the number 3, the text " 10 "
AnswerInputs == {JNull, JInt(3), JStr(<<" ", "1", "0", " ">>)}

\* the cookie a client sends: none, one of its own making, or an id of the
\* kind a 201 response sets
CookieInputs == {JNull, JStr(K1)} \cup {JStr(Minted(k)) : k \in 1..seq}

\* no token, or one a 201 response has returned
TokenInputs == {JNull} \cup {JStr(Token(k)) : k \in 1..seq}

\* an id the store has assigned, or the next one (not assigned yet)
RidInputs == 1..(seq + 1)

LimitInputs == {JNull, JStr(<<"1">>), JStr(<<"0", "0", "0", "1", "2">>), JStr(<<"x">>)}

CreateRequests ==
    [op : {"create"}, name : NameInputs, text : TextInputs, captcha_id : CidInputs,
     captcha_answer : AnswerInputs, cookie : CookieInputs]

DeleteRequests ==
    [op : {"delete"}, rid : RidInputs, token : TokenInputs, cookie : CookieInputs]

ListRequests == [op : {"list"}, limit : LimitInputs]

Requests ==
    CreateRequests \cup DeleteRequests \cup ListRequests
        \cup {[op |-> "captcha"], [op |-> "health"]}

(***************************************************************************)
(* Spec: requests run one at a time; each handler is one step.             *)
(***************************************************************************)
Workers == {1, 2}

NoReq == [op |-> "none"]

NoLoc == [none |-> TRUE]

EmptyTable == [c \in {} |-> NoRow]

(***************************************************************************)
(* Startup (src/app.py): the page routes are registered, then the reviews  *)
(* API is imported and initialised inside a try; an exception is printed   *)
(* and the app runs on.                                                    *)
(***************************************************************************)
PageRoutes == {"/", "/about", "/research", "/knowledge", "/blockchain-basic", "/contact", "/labs"}

\* the routes of the blueprint bp, by handler
ApiRoutes == {"health", "captcha", "list", "create", "delete"}

\* what may go wrong: nothing, the import of reviews_api, the schema script
StartupFaults == {"none", "import", "schema"}

\* init_reviews: register_blueprint(bp), then init_db() in an app context
init_reviews(fault) ==
    [routes |-> ApiRoutes, schema |-> fault # "schema", raised |-> fault = "schema"]

\* app.py as a whole: the routes of the app, whether the tables were created
\* and whether "reviews_api init error" was printed
Startup(fault) ==
    IF fault = "import"
    THEN [routes |-> PageRoutes, schema |-> FALSE, failed |-> TRUE]
    ELSE LET r == init_reviews(fault)
         IN [routes |-> PageRoutes \cup r.routes, schema |-> r.schema, failed |-> r.raised]

\* the app has a handler for the route and the handler finds its tables
\* (health reads none)
Serves(op) == op \in app.routes /\ (op = "health" \/ app.schema)

Init ==
    /\ \E fault \in StartupFaults : app = Startup(fault)
    /\ captchas = EmptyTable
    /\ reviews = {}
    /\ seq = 0
    /\ now = 0
    /\ issued = 0
    /\ ticks = 0
    /\ pc = [p \in Workers |-> "idle"]
    /\ req = [p \in Workers |-> NoReq]
    /\ loc = [p \in Workers |-> NoLoc]
    /\ verifs = [c \in {} |-> 0]
    /\ refused = {}
    /\ created = {}

\* the state-growing steps taken so far
Ops == issued + seq + ticks

\* time passes (time.time() is read by the handlers)
Tick(dt) ==
    /\ Ops < MaxOps
    /\ now' = now + dt
    /\ ticks' = ticks + 1
    /\ UNCHANGED <<store, issued, workers, history, app>>

\* history of a captcha issued
Issued(cid) == [c \in DOMAIN verifs \cup {cid} |-> IF c \in DOMAIN verifs THEN verifs[c] ELSE 0]

\* history of a verification that returned True
Verified(cid) == IF cid = NoCid THEN verifs ELSE [verifs EXCEPT ![cid] = @ + 1]

\* history of a verification that returned False and kept the record; the
\* history of a captcha ends with its record
Refused(cid, body, caps) ==
    IF body = [error |-> "captcha failed"] /\ Truthy(cid) /\ cid.v \in DOMAIN caps
    THEN refused \cup {cid.v} ELSE refused \cap DOMAIN caps

GetCaptcha ==
    /\ Serves("captcha")
    /\ Ops < MaxOps
    /\ \E da \in DrawsA, db \in DrawsB :
        captchas' = get_captcha(captchas, now, Cid(issued + 1), da + 2, db + 1).captchas
    /\ issued' = issued + 1
    /\ verifs' = Issued(Cid(issued + 1))
    /\ UNCHANGED <<reviews, seq, now, ticks, workers, refused, created, app>>

CreateReview ==
    \E rq \in CreateRequests :
      \E o \in create_review(reviews, captchas, seq, now, rq) :
        /\ Serves("create")
        /\ o.seq = seq \/ Ops < MaxOps
        /\ reviews' = o.reviews
        /\ captchas' = o.captchas
        /\ seq' = o.seq
        /\ verifs' = Verified(o.verified)
        /\ refused' = Refused(rq.captcha_id, o.body, o.captchas)
        /\ created' = IF o.status = 201
                       THEN created \cup {[body |-> o.body, cookie |-> o.cookie]}
                       ELSE created
        /\ UNCHANGED <<now, issued, ticks, workers, app>>

DeleteReview ==
    \E rq \in DeleteRequests :
        /\ Serves("delete")
        /\ reviews' = delete_review(reviews, rq.rid, rq.token, rq.cookie).reviews
        /\ UNCHANGED <<captchas, seq, now, issued, ticks, workers, history, app>>

\* list_reviews and health answer without writing
ListReviews ==
    \E rq \in ListRequests :
      \E o \in list_reviews(reviews, rq.limit) : Serves("list") /\ UNCHANGED vars

Health == Serves("health") /\ UNCHANGED vars

\* a page is rendered
Page == \E route \in PageRoutes : route \in app.routes /\ UNCHANGED vars

\* a request for a route the app does not have (Flask answers 404), or for
\* a handler that finds no tables (its query raises, Flask answers 500)
Unserved == \E rq \in Requests : ~Serves(rq.op) /\ UNCHANGED vars

Next ==
    \/ \E dt \in {1, CAPTCHA_TTL} : Tick(dt)
    \/ GetCaptcha
    \/ CreateReview
    \/ DeleteReview
    \/ ListReviews
    \/ Health
    \/ Page
    \/ Unserved

Spec == Init /\ [][Next]_vars

(***************************************************************************)
(* SpecConc: two workers handle create requests at once.  Every statement  *)
(* a handler runs on the store is committed by itself, so the statements   *)
(* of two requests interleave; what a worker does between two statements   *)
(* is local to it.  Captchas are issued as in Spec; the clock jumps past a  *)
(* captcha's life.                                                         *)
(***************************************************************************)
\* the POSTs of one browser (cookie K1): either name, a captcha id it was
\* given, the answer 10
ConcRequests ==
    [op : {"create"}, name : {JStr(Ann), JStr(Bob)}, text : {JStr(Hi)},
     captcha_id : {JStr(Cid(k)) : k \in 1..issued},
     captcha_answer : {JStr(<<" ", "1", "0", " ">>)}, cookie : {JStr(K1)}]

Goto(p, label) == pc' = [pc EXCEPT ![p] = label]

\* the handler returns: the status of its response
Return(p, code) ==
    /\ pc' = [pc EXCEPT ![p] = "done"]
    /\ loc' = [loc EXCEPT ![p] = [status |-> code]]

\* a POST reaches a free worker
Receive(p) ==
    /\ Serves("create")
    /\ pc[p] = "idle"
    /\ \E rq \in ConcRequests : req' = [req EXCEPT ![p] = rq]
    /\ Goto(p, "prior")
    /\ UNCHANGED <<store, now, issued, ticks, loc, history, app>>

\* create_review up to its first query: the fields are read and checked, the
\* client id is taken, the prior review is selected and its name compared
SelectPrior(p) ==
    /\ pc[p] = "prior"
    /\ LET name == Strip(OrEmpty(req[p].name))
           text == Strip(OrEmpty(req[p].text))
           rows == IF Truthy(req[p].cookie) THEN LatestByClient(reviews, req[p].cookie.v) ELSE {}
       IN IF name = <<>> \/ (text = <<>> /\ req[p].text.t = "null") THEN Return(p, 400)
          ELSE IF rows # {}
               THEN \E row \in rows :
                      IF NameConflict(row, name) THEN Return(p, 403)
                      ELSE Goto(p, "insert") /\ UNCHANGED loc
          ELSE IF ~Truthy(req[p].captcha_id) THEN Return(p, 400)
          ELSE Goto(p, "captcha") /\ UNCHANGED loc
    /\ UNCHANGED <<store, now, issued, ticks, req, history, app>>

\* verify_captcha: the record is selected
SelectCaptcha(p) ==
    /\ pc[p] = "captcha"
    /\ LET row == FindCaptcha(captchas, req[p].captcha_id.v)
       IN IF row = NoRow THEN Return(p, 400)
          ELSE Goto(p, "check") /\ loc' = [loc EXCEPT ![p] = row]
    /\ UNCHANGED <<store, now, issued, ticks, req, history, app>>

\* verify_captcha: the clock is read and the selected record judged
CheckCaptcha(p) ==
    /\ pc[p] = "check"
    /\ IF Expired(now, loc[p]) THEN Goto(p, "expire") /\ UNCHANGED <<loc, refused>>
       ELSE IF ~AnswerMatches(req[p].captcha_answer, loc[p])
            THEN Return(p, 400) /\ refused' = refused \cup ({req[p].captcha_id.v} \cap DOMAIN captchas)
       ELSE Goto(p, "consume") /\ UNCHANGED <<loc, refused>>
    /\ UNCHANGED <<store, now, issued, ticks, req, verifs, created, app>>

\* verify_captcha: the expired record is deleted; it returns False
ExpireCaptcha(p) ==
    /\ pc[p] = "expire"
    /\ captchas' = DeleteCaptcha(captchas, req[p].captcha_id.v)
    /\ refused' = refused \ {req[p].captcha_id.v}
    /\ Return(p, 400)
    /\ UNCHANGED <<reviews, seq, now, issued, ticks, req, verifs, created, app>>

\* verify_captcha: the record is deleted; it returns True
ConsumeCaptcha(p) ==
    /\ pc[p] = "consume"
    /\ captchas' = DeleteCaptcha(captchas, req[p].captcha_id.v)
    /\ verifs' = Verified(req[p].captcha_id.v)
    /\ refused' = refused \ {req[p].captcha_id.v}
    /\ Goto(p, "insert")
    /\ UNCHANGED <<reviews, seq, now, issued, ticks, req, loc, created, app>>

\* create_review from the insert on
Insert(p) ==
    /\ pc[p] = "insert"
    /\ Ops < MaxOps
    /\ LET o == Created(reviews, captchas, seq, now, Strip(OrEmpty(req[p].name)),
                        Strip(OrEmpty(req[p].text)), ClientId(req[p].cookie, seq), NoCid)
       IN /\ reviews' = o.reviews
          /\ seq' = o.seq
          /\ created' = created \cup {[body |-> o.body, cookie |-> o.cookie]}
          /\ Return(p, o.status)
    /\ UNCHANGED <<captchas, now, issued, ticks, req, verifs, refused, app>>

\* the response is sent and the worker is free again
Respond(p) ==
    /\ pc[p] = "done"
    /\ pc' = [pc EXCEPT ![p] = "idle"]
    /\ req' = [req EXCEPT ![p] = NoReq]
    /\ loc' = [loc EXCEPT ![p] = NoLoc]
    /\ UNCHANGED <<store, now, issued, ticks, history, app>>

NextConc ==
    \/ Tick(CAPTCHA_TTL + 1)
    \/ GetCaptcha
    \/ \E p \in Workers :
        \/ Receive(p)
        \/ SelectPrior(p)
        \/ SelectCaptcha(p)
        \/ CheckCaptcha(p)
        \/ ExpireCaptcha(p)
        \/ ConsumeCaptcha(p)
        \/ Insert(p)
        \/ Respond(p)

SpecConc == Init /\ [][NextConc]_vars

(***************************************************************************)
(* Vocabulary of the properties, stated on the tables and the requests     *)
(* rather than through the handlers' own tests.                            *)
(***************************************************************************)
\* the number a stored answer spells
AnswerOf(row) == DigitsVal(row.answer)

\* x is the number n as a client may send it: a JSON integer, or its decimal
\* digits with blanks around them
Denotes(x, n) ==
    \/ x = JInt(n)
    \/ /\ x.t = "str"
       /\ x.v \in {pre \o IntToStr(n) \o post : pre, post \in {<<>>, <<" ">>}}

Live(cid) == cid \in DOMAIN captchas /\ now <= captchas[cid].expires_at

Stale(cid) == cid \in DOMAIN captchas /\ now > captchas[cid].expires_at

\* the answers a client may send for the captcha cid
RightAnswers(cid) == {x \in AnswerInputs : Denotes(x, AnswerOf(captchas[cid]))}

WrongAnswers(cid) == AnswerInputs \ RightAnswers(cid)

\* the request carries the id of a live captcha and its right answer
GoodCaptcha(rq) ==
    /\ rq.captcha_id.t = "str"
    /\ Live(rq.captcha_id.v)
    /\ rq.captcha_answer \in RightAnswers(rq.captcha_id.v)

\* a text without its blanks (the inputs have none inside a word)
NoBlanks(s) == SelectSeq(s, LAMBDA c : c # " ")

\* the request has a name that is not blank, and a text field
NamedAndWorded(rq) ==
    /\ rq.name.t = "str" /\ NoBlanks(rq.name.v) # <<>>
    /\ rq.text.t = "str"

\* the request's identity owns no stored review
NoPrior(cookie) == cookie = JNull \/ \A r \in reviews : r.client_id # cookie.v

ClientIds == {r.client_id : r \in reviews}

Sum2(f, S) == IF S = {} THEN 0 ELSE Cardinality({<<c, k>> \in S \X (1..MaxOps) : k <= f[c]})

\* verifications that returned True so far
Verifications == Sum2(verifs, DOMAIN verifs)

(***************************************************************************)
(* C1: with requests run one at a time, a verification of an issued        *)
(* captcha with the right answer, made no later than its expires_at,       *)
(* returns True and removes the record; every later verification of that   *)
(* cid returns False, whatever the answer; so no cid is ever verified      *)
(* more than once.                                                         *)
(***************************************************************************)
C1_VerifyExactlyOnce ==
    /\ \A cid \in DOMAIN captchas : Live(cid) =>
         \A x \in RightAnswers(cid) :
            LET v == verify_captcha(captchas, now, JStr(cid), x)
            IN v.ok /\ cid \notin DOMAIN v.captchas
    /\ \A cid \in DOMAIN verifs :
         /\ verifs[cid] <= 1
         /\ verifs[cid] = 1 =>
              \A x \in AnswerInputs : ~verify_captcha(captchas, now, JStr(cid), x).ok

\* a captcha has been verified, and another one is at the last second of its life
C1_Witness ==
    /\ \E cid \in DOMAIN verifs : verifs[cid] = 1
    /\ \E cid \in DOMAIN captchas : now = captchas[cid].expires_at /\ RightAnswers(cid) # {}

(***************************************************************************)
(* C2: also when the store statements of concurrent create requests        *)
(* interleave, at most one verification of a cid returns True, so one      *)
(* captcha never authorises two first reviews.                             *)
(***************************************************************************)
C2_AtMostOneVerification == \A cid \in DOMAIN verifs : verifs[cid] <= 1

(***************************************************************************)
(* C3: over the whole history, with creates and deletes in any order, a    *)
(* client id is used with at most one name: every review a client creates  *)
(* after its first carries the name of the first, also after its reviews   *)
(* were deleted.                                                           *)
(***************************************************************************)
C3_NamePermanent ==
    \A c, d \in created : c.cookie = d.cookie => c.body.name = d.body.name

(***************************************************************************)
(* C4: for a request whose identity owns no stored review (a request       *)
(* without cookie gets a fresh id), with a name and a text: unless it      *)
(* carries a live captcha and its right answer, create answers 400         *)
(* "captcha failed" and stores no review; if it does, create answers 201,  *)
(* stores exactly one review, returns that review's delete_token, and      *)
(* the captcha is gone.                                                    *)
(***************************************************************************)
C4_FirstReviewNeedsCaptcha ==
    \A rq \in CreateRequests : (NamedAndWorded(rq) /\ NoPrior(rq.cookie)) =>
        \A o \in create_review(reviews, captchas, seq, now, rq) :
            IF GoodCaptcha(rq)
            THEN /\ o.status = 201
                 /\ \E r \in o.reviews :
                        /\ r \notin reviews
                        /\ o.reviews = reviews \cup {r}
                        /\ r.id = o.body.id /\ r.delete_token = o.body.delete_token
                        /\ r.client_id = o.cookie
                        /\ rq.cookie = JNull => r.client_id \notin ClientIds \cup {K1}
                 /\ rq.captcha_id.v \notin DOMAIN o.captchas
            ELSE /\ o.status = 400 /\ o.body = [error |-> "captcha failed"]
                 /\ o.reviews = reviews

\* a request without cookie has created a review on a captcha, which is gone,
\* and another captcha is live
C4_Witness ==
    /\ \E r \in reviews : r.client_id = Minted(r.id)
    /\ \E cid \in DOMAIN verifs : verifs[cid] = 1 /\ cid \notin DOMAIN captchas
    /\ \E cid \in DOMAIN captchas : Live(cid) /\ RightAnswers(cid) # {} /\ WrongAnswers(cid) # {}

(***************************************************************************)
(* C5: for a request whose identity owns a stored review, with a name and  *)
(* a text: under another name than that review's, create answers 403 (the  *)
(* name conflict) whatever captcha it carries, and stores nothing; under   *)
(* the same name it answers 201, also with no captcha at all.              *)
(***************************************************************************)
C5_BoundToName ==
    \A rq \in CreateRequests : \A r \in reviews :
        (NamedAndWorded(rq) /\ rq.cookie = JStr(r.client_id)) =>
            \A o \in create_review(reviews, captchas, seq, now, rq) :
                IF NoBlanks(rq.name.v) # r.name
                THEN /\ o.status = 403 /\ o.body = [error |-> NAME_CONFLICT]
                     /\ o.reviews = reviews /\ o.captchas = captchas
                ELSE /\ o.status = 201
                     /\ Cardinality(o.reviews) = Cardinality(reviews) + 1
                     /\ o.captchas = captchas

\* a client owns two reviews of one name, the second created while only one
\* captcha had ever been verified; a live captcha is at hand
C5_Witness ==
    /\ \E r1, r2 \in reviews : r1.id # r2.id /\ r1.client_id = r2.client_id /\ r1.name = r2.name
    /\ Verifications = 1
    /\ \E cid \in DOMAIN captchas : Live(cid) /\ RightAnswers(cid) # {}

(***************************************************************************)
(* C6: a delete of a stored review answers 200 and removes exactly that    *)
(* review when the token sent is its delete_token, whatever the cookie,    *)
(* and when the cookie sent is its client_id, whatever the token.          *)
(***************************************************************************)
C6_DeleteByTokenOrCookie ==
    \A r \in reviews : \A rq \in DeleteRequests :
        (rq.rid = r.id /\ (rq.token = JStr(r.delete_token) \/ rq.cookie = JStr(r.client_id))) =>
            LET o == delete_review(reviews, rq.rid, rq.token, rq.cookie)
            IN o.status = 200 /\ o.body = [ok |-> TRUE] /\ o.reviews = reviews \ {r}

\* a review has been deleted; of a stored one, a client may send the token
\* under a foreign cookie, or the cookie with a foreign token
C6_Witness ==
    /\ \E c \in created : \A r \in reviews : r.id # c.body.id
    /\ \E r \in reviews : \E rq1, rq2 \in DeleteRequests :
        /\ rq1.rid = r.id /\ rq1.token = JStr(r.delete_token)
        /\ rq1.cookie.t = "str" /\ rq1.cookie # JStr(r.client_id)
        /\ rq2.rid = r.id /\ rq2.cookie = JStr(r.client_id)
        /\ rq2.token.t = "str" /\ rq2.token # JStr(r.delete_token)

(***************************************************************************)
(* C7: a delete whose token is absent or not the stored delete_token and   *)
(* whose cookie is absent or not the stored client_id answers 403          *)
(* "unauthorized"; a delete of an id that is not stored answers 404 "not   *)
(* found"; both leave the table reviews as it is, and the refused delete   *)
(* leaves the review listed.  A step in which a review leaves the table    *)
(* is the step of a delete authorised for that review, answered 200, and   *)
(* removes no other review.                                                *)
(***************************************************************************)
Authorised(rq, r) ==
    rq.rid = r.id /\ (rq.token = JStr(r.delete_token) \/ rq.cookie = JStr(r.client_id))

C7_Refusals ==
    \A rq \in DeleteRequests :
        LET o == delete_review(reviews, rq.rid, rq.token, rq.cookie)
        IN /\ (\A r \in reviews : r.id # rq.rid) =>
                o.status = 404 /\ o.body = [error |-> "not found"] /\ o.reviews = reviews
           /\ \A r \in reviews : (r.id = rq.rid /\ ~Authorised(rq, r)) =>
                /\ o.status = 403 /\ o.body = [error |-> "unauthorized"] /\ o.reviews = reviews
                /\ \A l \in list_reviews(o.reviews, JNull) :
                      \E i \in DOMAIN l.body.reviews : l.body.reviews[i].id = r.id

C7_RemovedOnlyByAuthorisedDelete ==
    \A r \in reviews : r \notin reviews' =>
        \E rq \in DeleteRequests :
            LET o == delete_review(reviews, rq.rid, rq.token, rq.cookie)
            IN /\ Authorised(rq, r)
               /\ o.status = 200
               /\ reviews' = o.reviews /\ reviews' = reviews \ {r}
               /\ UNCHANGED <<captchas, seq, now, created>>

C7_OnlyAuthorisedDelete == []C7_Refusals /\ [][C7_RemovedOnlyByAuthorisedDelete]_vars

\* a review has been deleted, so its id is not stored; of a stored one, a
\* client may send a foreign token under a foreign cookie
C7_Witness ==
    /\ \E c \in created : \A r \in reviews : r.id # c.body.id
    /\ \E r \in reviews : \E rq \in DeleteRequests :
        /\ rq.rid = r.id /\ rq.token.t = "str" /\ rq.cookie.t = "str"
        /\ ~Authorised(rq, r)

(***************************************************************************)
(* C8: a verification made after a captcha's expires_at returns False      *)
(* even for the right answer and removes the record; from then on every    *)
(* verification of that cid returns False, and the record never returns.   *)
(***************************************************************************)
C8_StaleRefusedAndRemoved ==
    /\ \A cid \in DOMAIN captchas : Stale(cid) =>
         \A x \in AnswerInputs :
            LET v == verify_captcha(captchas, now, JStr(cid), x)
            IN ~v.ok /\ cid \notin DOMAIN v.captchas
    /\ \A cid \in DOMAIN verifs \ DOMAIN captchas :
         \A x \in AnswerInputs : ~verify_captcha(captchas, now, JStr(cid), x).ok

C8_RemovedForGood ==
    \A cid \in DOMAIN verifs : cid \notin DOMAIN captchas => cid \notin DOMAIN captchas'

C8_ExpiredRemoved == []C8_StaleRefusedAndRemoved /\ [][C8_RemovedForGood]_vars

\* an issued captcha is gone though no verification of it returned True: a
\* verification after its expiry removed it
C8_Witness == \E cid \in DOMAIN verifs : verifs[cid] = 0 /\ cid \notin DOMAIN captchas

(***************************************************************************)
(* C9: a verification of a live captcha with a wrong answer returns False  *)
(* and leaves the table captchas as it is, so that a verification with     *)
(* the right answer, made before expiry, still returns True.               *)
(***************************************************************************)
C9_WrongAnswerKeepsCaptcha ==
    \A cid \in DOMAIN captchas : Live(cid) =>
        \A x \in WrongAnswers(cid) :
            LET v == verify_captcha(captchas, now, JStr(cid), x)
            IN /\ ~v.ok
               /\ v.captchas = captchas
               /\ \A y \in RightAnswers(cid) : verify_captcha(v.captchas, now, JStr(cid), y).ok

\* a captcha that a verification has refused for its answer is stored and live
C9_Witness == \E cid \in refused : Live(cid)

(***************************************************************************)
(* C10: a review that was created and is still stored is listed (under     *)
(* the default limit) with the id, name, text and ts its 201 response      *)
(* gave; an entry of a list has these four fields and no other.            *)
(***************************************************************************)
C10_ListedAsCreated ==
    /\ \A c \in created : (\E r \in reviews : r.id = c.body.id) =>
         \A o \in list_reviews(reviews, JNull) :
            /\ o.status = 200
            /\ \E i \in DOMAIN o.body.reviews :
                 o.body.reviews[i] = [id |-> c.body.id, name |-> c.body.name,
                                      text |-> c.body.text, ts |-> c.body.ts]
    /\ \A rq \in ListRequests : \A o \in list_reviews(reviews, rq.limit) :
         o.status = 200 =>
            \A i \in DOMAIN o.body.reviews :
                DOMAIN o.body.reviews[i] = {"id", "name", "text", "ts"}

\* two reviews created at different times are stored, one with a text and
\* one with the empty text
C10_Witness ==
    \E r1, r2 \in reviews : r1.ts # r2.ts /\ r1.text = <<>> /\ r2.text = Hi

(***************************************************************************)
(* C11: a list returns the stored reviews by ts descending, reviews of     *)
(* equal ts in their insertion order (by id, one direction for all         *)
(* lists); with limit=1 and a review stored it returns exactly one         *)
(* review, of the greatest ts.                                             *)
(***************************************************************************)
C11_OrderedWithTieBreak ==
    LET outs == list_reviews(reviews, JNull)
        Pairs(o) == {<<i, j>> \in (DOMAIN o.body.reviews) \X (DOMAIN o.body.reviews) : i < j}
    IN /\ \A o \in outs : /\ o.status = 200
                          /\ {o.body.reviews[i].id : i \in DOMAIN o.body.reviews}
                                = {r.id : r \in reviews}
                          /\ \A p \in Pairs(o) :
                                o.body.reviews[p[1]].ts >= o.body.reviews[p[2]].ts
       /\ \/ \A o \in outs : \A p \in Pairs(o) :
                o.body.reviews[p[1]].ts = o.body.reviews[p[2]].ts
                    => o.body.reviews[p[1]].id < o.body.reviews[p[2]].id
          \/ \A o \in outs : \A p \in Pairs(o) :
                o.body.reviews[p[1]].ts = o.body.reviews[p[2]].ts
                    => o.body.reviews[p[1]].id > o.body.reviews[p[2]].id
       /\ reviews # {} =>
            \A o \in list_reviews(reviews, JStr(<<"1">>)) :
                /\ o.status = 200 /\ Len(o.body.reviews) = 1
                /\ \A r \in reviews : r.ts <= o.body.reviews[1].ts

(***************************************************************************)
(* C12: create answers 400 "name required" when the name is missing or     *)
(* blank, and 400 "text required" when the name is given and the text      *)
(* field is absent, storing nothing; with a name, a text sent as the       *)
(* empty string is not refused by these checks: the request goes on to     *)
(* the name and captcha checks, and what is created has the empty text.    *)
(***************************************************************************)
C12_Validation ==
    \A rq \in CreateRequests :
        LET named == rq.name.t = "str" /\ NoBlanks(rq.name.v) # <<>>
        IN \A o \in create_review(reviews, captchas, seq, now, rq) :
            /\ ~named =>
                 /\ o.status = 400 /\ o.body = [error |-> "name required"]
                 /\ o.reviews = reviews /\ o.captchas = captchas /\ o.seq = seq
            /\ (named /\ rq.text = JNull) =>
                 /\ o.status = 400 /\ o.body = [error |-> "text required"]
                 /\ o.reviews = reviews /\ o.captchas = captchas /\ o.seq = seq
            /\ (named /\ rq.text = JStr(<<>>)) =>
                 /\ o.body \notin {[error |-> "name required"], [error |-> "text required"]}
                 /\ o.status = 201 => o.body.text = <<>>
                 /\ (NoPrior(rq.cookie) /\ GoodCaptcha(rq)) => o.status = 201
                 /\ (~NoPrior(rq.cookie)) => o.status \in {201, 403}

\* a review of the empty text was created and is stored, and a live captcha
\* is at hand for the next request
C12_Witness ==
    /\ \E c \in created : c.body.text = <<>> /\ \E r \in reviews : r.id = c.body.id /\ r.text = <<>>
    /\ \E cid \in DOMAIN captchas : Live(cid) /\ RightAnswers(cid) # {}

(***************************************************************************)
(* C13: once a delete of review id r has succeeded, every delete request   *)
(* for r answers 404 "not found", whatever its token and cookie and        *)
(* whatever was created since: a new review gets an id greater than every  *)
(* id assigned before, so an id that left the table never returns.         *)
(***************************************************************************)
C13_DeletedIsNotFound ==
    /\ \A c \in created : (\A r \in reviews : r.id # c.body.id) =>
         \A rq \in DeleteRequests : rq.rid = c.body.id =>
            LET o == delete_review(reviews, rq.rid, rq.token, rq.cookie)
            IN o.status = 404 /\ o.body = [error |-> "not found"] /\ o.reviews = reviews
    /\ \A r \in reviews : r.id \in 1..seq
    /\ \A r1, r2 \in reviews : r1.id = r2.id => r1 = r2

C13_IdsNeverReassigned ==
    /\ \A k \in 1..seq : (\A r \in reviews : r.id # k) => (\A r \in reviews' : r.id # k)
    /\ \A r \in reviews' \ reviews : r.id > seq /\ r.id = seq'

C13_DeleteThenNotFound == []C13_DeletedIsNotFound /\ [][C13_IdsNeverReassigned]_vars

\* a review was deleted and a review created after it is stored
C13_Witness ==
    \E c \in created :
        /\ \A r \in reviews : r.id # c.body.id
        /\ \E r \in reviews : r.id > c.body.id

(***************************************************************************)
(* C14: the delete_token returned for a review A authorises no delete of   *)
(* another review B: a delete of B that carries A's token, under a cookie  *)
(* that is not B's client_id, answers 403 "unauthorized" and leaves B      *)
(* stored.                                                                 *)
(***************************************************************************)
C14_TokenOnlyForItsReview ==
    \A b \in reviews : \A a \in created : a.body.id # b.id =>
        \A rq \in DeleteRequests :
            (rq.rid = b.id /\ rq.token = JStr(a.body.delete_token)
                           /\ rq.cookie # JStr(b.client_id)) =>
                LET o == delete_review(reviews, rq.rid, rq.token, rq.cookie)
                IN /\ o.status = 403 /\ o.body = [error |-> "unauthorized"]
                   /\ b \in o.reviews /\ o.reviews = reviews

\* two clients have a review each, and one may send its own token and cookie
\* with the id of the other's review
C14_Witness ==
    \E a, b \in reviews :
        /\ a.id # b.id /\ a.client_id # b.client_id
        /\ [op |-> "delete", rid |-> b.id, token |-> JStr(a.delete_token),
            cookie |-> JStr(a.client_id)] \in DeleteRequests

(***************************************************************************)
(* C15: a list whose limit is absent, or present but no number, answers    *)
(* 200 as with limit 200; a numeric limit bounds the list by the number    *)
(* its first 4 characters spell.                                           *)
(***************************************************************************)
C15_LimitDefaultsTo200 ==
    \A rq \in ListRequests :
        LET numeric == /\ rq.limit.t = "str" /\ rq.limit.v # <<>>
                       /\ \A i \in DOMAIN rq.limit.v : IsDigit(rq.limit.v[i])
            bound == IF numeric
                     THEN DigitsVal(SubSeq(rq.limit.v, 1, Min(4, Len(rq.limit.v))))
                     ELSE 200
        IN \A o \in list_reviews(reviews, rq.limit) :
            /\ o.status = 200
            /\ Len(o.body.reviews) = Min(bound, Cardinality(reviews))

(***************************************************************************)
(* C16: when the initialisation of the reviews API fails at startup (the   *)
(* import, or the creation of the schema), the app still has every page    *)
(* route and has no route of the reviews API.                              *)
(***************************************************************************)
C16_DegradesWithoutApi ==
    app.failed => (PageRoutes \subseteq app.routes /\ app.routes \cap ApiRoutes = {})

(***************************************************************************)
(* C17: with requests run one at a time, in every reachable state the      *)
(* stored reviews of one client_id carry one name, whatever creates and    *)
(* deletes came before.                                                    *)
(***************************************************************************)
C17_StoredReviewsShareName ==
    \A r1, r2 \in reviews : r1.client_id = r2.client_id => r1.name = r2.name

\* a client has stored a second review later than its first, so that the
\* name check had a latest review to compare with
C17_Witness ==
    \E r1, r2 \in reviews : r1.client_id = r2.client_id /\ r1.ts < r2.ts

(***************************************************************************)
(* C18: with the statements of two create requests interleaved, two        *)
(* requests of one client without stored review that both run the          *)
(* prior-review query before either inserts, each with a valid captcha of  *)
(* its own, are both accepted, also under different names: two reviews of  *)
(* one client_id with different names are stored.  Nothing after the       *)
(* query looks at the reviews again, and two names of one client come      *)
(* about only through two verifications.                                   *)
(***************************************************************************)
C18_TwoNamesOnlyByTwoVerifications ==
    \A r1, r2 \in reviews :
        (r1.client_id = r2.client_id /\ r1.name # r2.name) => Verifications >= 2

C18_InsertLooksAtNoReview ==
    \A p \in Workers : (pc[p] = "insert" /\ pc'[p] = "done") =>
        /\ loc'[p] = [status |-> 201]
        /\ \E r \in reviews' \ reviews :
            /\ reviews' = reviews \cup {r}
            /\ r.name = NoBlanks(req[p].name.v) /\ r.client_id = req[p].cookie.v

C18_CreateRace ==
    []C18_TwoNamesOnlyByTwoVerifications /\ [][C18_InsertLooksAtNoReview]_vars

\* one client has two stored reviews of different names, and two captchas
\* were verified once each
C18_Witness ==
    /\ \E r1, r2 \in reviews : r1.client_id = r2.client_id /\ r1.name # r2.name
    /\ \E c1, c2 \in DOMAIN verifs : c1 # c2 /\ verifs[c1] = 1 /\ verifs[c2] = 1

(***************************************************************************)
(* C19: stored reviews change only by create and delete.  In every step    *)
(* the table reviews gains exactly one review of a new id (a create        *)
(* answered 201), loses exactly one review (a delete answered 200), or is  *)
(* unchanged; a review that stays keeps all its fields.  Issuing a         *)
(* captcha, verifying one, listing, and every create or delete that is     *)
(* refused leave the table as it is.                                       *)
(***************************************************************************)
C19_RefusedLeavesReviews ==
    /\ \A rq \in CreateRequests : \A o \in create_review(reviews, captchas, seq, now, rq) :
         IF o.status = 201
         THEN \E r \in o.reviews \ reviews :
                /\ o.reviews = reviews \cup {r}
                /\ \A q \in reviews : q.id # r.id
         ELSE o.reviews = reviews
    /\ \A rq \in DeleteRequests :
         LET o == delete_review(reviews, rq.rid, rq.token, rq.cookie)
         IN IF o.status = 200
            THEN \E r \in reviews : r.id = rq.rid /\ o.reviews = reviews \ {r}
            ELSE o.reviews = reviews

C19_OneReviewAtATime ==
    /\ \/ reviews' = reviews
       \/ \E r \in reviews' \ reviews :
            /\ reviews' = reviews \cup {r}
            /\ \A q \in reviews : q.id # r.id
            /\ \E c \in created' \ created : c.body.id = r.id
       \/ \E r \in reviews \ reviews' : reviews' = reviews \ {r}
    /\ \A r \in reviews : \A q \in reviews' : q.id = r.id => q = r
    /\ issued' # issued => reviews' = reviews
    /\ (captchas' # captchas /\ seq' = seq) => reviews' = reviews
    /\ created' = created => reviews' \subseteq reviews

C19_ReviewsFrame == []C19_RefusedLeavesReviews /\ [][C19_OneReviewAtATime]_vars

\* a review was deleted, another is stored, and a create was refused for its
\* captcha answer
C19_Witness ==
    /\ \E c \in created : \A r \in reviews : r.id # c.body.id
    /\ reviews # {}
    /\ refused # {}

(***************************************************************************)
(* C20: a create refused for its name or text (400) or for a name          *)
(* conflict (403) leaves the tables captchas and reviews as they are: a    *)
(* live captcha it carried with the right answer is not consumed and       *)
(* still verifies.  The client id minted for a request without cookie is   *)
(* stored nowhere unless the request creates a review.                     *)
(***************************************************************************)
C20_RejectedCreateKeepsCaptchas ==
    /\ \A rq \in CreateRequests : \A o \in create_review(reviews, captchas, seq, now, rq) :
         /\ (o.status = 403 \/ o.body \in {[error |-> "name required"],
                                           [error |-> "text required"]}) =>
               /\ o.captchas = captchas /\ o.reviews = reviews /\ o.seq = seq
               /\ GoodCaptcha(rq) =>
                    verify_captcha(o.captchas, now, rq.captcha_id, rq.captcha_answer).ok
         /\ (rq.cookie = JNull /\ o.status # 201) =>
               /\ o.cookie = NoCookie
               /\ \A r \in o.reviews : r.client_id # ClientId(rq.cookie, seq)
    /\ \A r \in reviews : \E c \in created : c.cookie = r.client_id
    /\ \A k \in (seq + 1)..(MaxOps + 1) : Minted(k) \notin ClientIds

\* a client with a stored review may send another name together with a live
\* captcha and its right answer, and is refused for the name
C20_Witness ==
    \E rq \in CreateRequests :
        /\ GoodCaptcha(rq)
        /\ \E o \in create_review(reviews, captchas, seq, now, rq) : o.status = 403

====
